---------------------------- MODULE Spec2Model ----------------------------
(***************************************************************************)
(* Model of the streamlit-echem loading pipeline:                          *)
(*   file_scanner.py        catalog enumeration of the Drive folder        *)
(*   googlesheet_loader.py  metadata header normalization, tab selection   *)
(*   data_loader.py         raw-table parsing, validation, normalization,  *)
(*                          batch orchestration                            *)
(* Strings whose characters matter (file names, headers, identifiers,      *)
(* numeric literals) are sequences of one-character strings.               *)
(***************************************************************************)
EXTENDS Integers, Sequences, FiniteSets, TLC

VARIABLES
    \* ---- file_scanner.get_available_cell_ids_from_drive
    scan_pc,      \* "off" | "list" | "files" | "done"
    resp,         \* files of the page being iterated
    pos,          \* index of the next file of resp
    page_token,   \* TRUE when the last response carried a nextPageToken
    cell_map,     \* the catalog under construction: cell id -> descriptor
    listed,       \* history: every file the collaborator has returned so far
    arrived,      \* history: every file already iterated, in arrival order
    reported,     \* history: file names printed as "Skipping file ..."
    \* ---- a direct call of data_loader.add_normalized_capacity
    norm_pc,      \* "off" | "parse" | "call" | "returned"
    header,       \* the header text as written upstream (header runs only)
    caller_df,    \* the caller's DataFrame object
    caller_meta,  \* the caller's metadata dict
    passed_df,    \* history: caller_df as it was when the call was made
    outcome,      \* the exception the call raised, or NoError
    required,     \* the configured column / field name (header runs only)
    \* ---- data_loader.load_all_cell_data
    ld_pc,        \* "off" | "check" | "fetch_raw" | "fetch_meta" | "normalize"
                  \* | "store" | "returned" | "raised"
    cell_file_map,\* the argument: (cell_id, file_id) pairs in dict order
    idx,          \* index of the pair the loop is at
    raw_data,     \* local: the parsed table of the current cell
    cell_metadata,\* local: the metadata dict of the current cell
    result,       \* local: cell id -> [raw_data, metadata]
    ld_error,     \* the exception that ended the call, with the cell it is about
    tab_cache,    \* lru_cache of _get_tab_df: tab name -> DataFrame
    events        \* history: the steps taken, each with its cell id

scan_vars == <<scan_pc, resp, pos, page_token, cell_map, listed, arrived, reported>>

norm_vars == <<norm_pc, header, caller_df, caller_meta, passed_df, outcome, required>>

load_vars == <<ld_pc, cell_file_map, idx, raw_data, cell_metadata, result, ld_error,
              tab_cache, events>>

vars == <<scan_vars, norm_vars, load_vars>>

---------------------------------------------------------------------------
(* Characters *)

UpperLetters ==
    {"A","B","C","D","E","F","G","H","I","J","K","L","M",
     "N","O","P","Q","R","S","T","U","V","W","X","Y","Z"}

LowerLetters ==
    {"a","b","c","d","e","f","g","h","i","j","k","l","m",
     "n","o","p","q","r","s","t","u","v","w","x","y","z"}

\* [A-Za-z]
IsLetter(c) == c \in UpperLetters \cup LowerLetters

\* \d (ASCII digits)
IsDigit(c) == c \in {"0","1","2","3","4","5","6","7","8","9"}

\* characters removed by str.strip()
IsSpace(c) == c \in {" ", "\n", "\t"}

\* Python's None for an optional string
None == <<>>

---------------------------------------------------------------------------
(* file_scanner.py *)

RECURSIVE RunLen(_, _, _)
\* length of the longest run of characters of class "letter" / "digit"
\* starting at index i of s (greedy quantifier of the regex)
RunLen(s, i, class) ==
    IF i > Len(s) THEN 0
    ELSE IF (class = "letter" /\ IsLetter(s[i])) \/ (class = "digit" /\ IsDigit(s[i]))
         THEN 1 + RunLen(s, i + 1, class)
         ELSE 0

\* variant of _extract_cell_id accepting 2+ digits instead of 4+
extract_cell_id_ShortDigits(filename) ==
    LET nl == RunLen(filename, 1, "letter")
        nd == RunLen(filename, nl + 1, "digit")
    IN  IF nl >= 2 /\ nd >= 2 /\ Len(filename) > nl + nd /\ filename[nl + nd + 1] = "_"
        THEN SubSeq(filename, 1, nl + nd)
        ELSE None

\* CELL_ID_RE = ^([A-Za-z]{2,}\d{4,})_ ; m.group(1) if m else None.
\* Letters and digits are disjoint classes, so the only possible match takes
\* the whole letter run, then the whole digit run, then the underscore.
extract_cell_id(filename) ==
    LET nl == RunLen(filename, 1, "letter")
        nd == RunLen(filename, nl + 1, "digit")
    IN  IF nl >= 2 /\ nd >= 4 /\ Len(filename) > nl + nd /\ filename[nl + nd + 1] = "_"
        THEN SubSeq(filename, 1, nl + nd)
        ELSE None

\* filename.endswith(".txt")
EndsWithTxt(filename) ==
    /\ Len(filename) >= 4
    /\ SubSeq(filename, Len(filename) - 3, Len(filename)) = <<".", "t", "x", "t">>

\* the dictionary stored for a file
Descriptor(file) ==
    [file_id |-> file.id, filename |-> file.name,
     modifiedTime |-> file.modifiedTime, size |-> file.size]

\* variant of the store step in which a later duplicate replaces the entry
StoreEntry_LastWins(map, cell_id, file) ==
    [k \in DOMAIN map \cup {cell_id} |->
        IF k = cell_id THEN Descriptor(file) ELSE map[k]]

\* if cell_id not in cell_map: cell_map[cell_id] = {...}
StoreEntry(map, cell_id, file) ==
    IF cell_id \in DOMAIN map
    THEN map
    ELSE [k \in DOMAIN map \cup {cell_id} |->
            IF k = cell_id THEN Descriptor(file) ELSE map[k]]

\* Files the Drive folder may hold (name, id, modifiedTime, size).
FileNames ==
    { <<"M","E","N","0","0","0","1","_","a",".","t","x","t">>,      \* MEN0001_a.txt
      <<"M","E","N","0","0","0","1","_","b",".","t","x","t">>,      \* MEN0001_b.txt
      <<"A","B","1","2","3","4","_",".","t","x","t">>,              \* AB1234_.txt
      <<"M","E","N","0","0","0","1","2","_","c",".","t","x","t">>,  \* MEN00012_c.txt
      <<"x","x","1","2","_","f","o","o",".","t","x","t">>,          \* xx12_foo.txt
      <<"M","0","0","0","1","_","a",".","t","x","t">>,              \* M0001_a.txt
      <<"M","E","N","0","0","0","1","a",".","t","x","t">>,          \* MEN0001a.txt
      <<"M","E","N","0","0","0","1","_","a",".","c","s","v">>,      \* MEN0001_a.csv
      <<"t","x","t">> }                                             \* txt

DriveFiles ==
    { [id |-> <<"i","d">> \o n, name |-> n, modifiedTime |-> "2024", size |-> "10"]
        : n \in FileNames }

\* bounds of the enumeration
MaxPageLen == 2
MaxFiles == 3

Pages == UNION { [1..n -> DriveFiles] : n \in 0..MaxPageLen }

ScanInit ==
    /\ scan_pc = "list"
    /\ resp = <<>>
    /\ pos = 1
    /\ page_token = FALSE
    /\ cell_map = <<>>
    /\ listed = <<>>
    /\ arrived = <<>>
    /\ reported = <<>>
    \* no direct call is running
    /\ norm_pc = "off"
    /\ header = <<>>
    /\ caller_df = <<>>
    /\ caller_meta = <<>>
    /\ passed_df = <<>>
    /\ outcome = <<>>
    /\ required = <<>>
    \* no batch load is running
    /\ ld_pc = "off"
    /\ cell_file_map = <<>>
    /\ idx = 1
    /\ raw_data = <<>>
    /\ cell_metadata = <<>>
    /\ result = <<>>
    /\ ld_error = <<>>
    /\ tab_cache = <<>>
    /\ events = <<>>

\* resp = service.files().list(...).execute(): the collaborator returns one page
ListPage ==
    /\ scan_pc = "list"
    /\ \E p \in Pages, more \in BOOLEAN :
          /\ Len(arrived) + Len(p) <= MaxFiles
          /\ resp' = p
          /\ listed' = listed \o p
          /\ page_token' = more
    /\ pos' = 1
    /\ scan_pc' = "files"
    /\ UNCHANGED <<cell_map, arrived, reported, norm_vars, load_vars>>

\* if not filename.endswith(".txt"): continue
SkipNonTxt ==
    /\ scan_pc = "files" /\ pos <= Len(resp)
    /\ ~EndsWithTxt(resp[pos].name)
    /\ arrived' = Append(arrived, resp[pos])
    /\ pos' = pos + 1
    /\ UNCHANGED <<scan_pc, resp, page_token, listed, cell_map, reported, norm_vars, load_vars>>

\* if not cell_id: print("Skipping file ..."); continue
SkipInvalidId ==
    /\ scan_pc = "files" /\ pos <= Len(resp)
    /\ EndsWithTxt(resp[pos].name)
    /\ extract_cell_id(resp[pos].name) = None
    /\ reported' = Append(reported, resp[pos].name)
    /\ arrived' = Append(arrived, resp[pos])
    /\ pos' = pos + 1
    /\ UNCHANGED <<scan_pc, resp, page_token, listed, cell_map, norm_vars, load_vars>>

\* a file carrying a cell id: stored unless the id is already a key
TakeFile ==
    /\ scan_pc = "files" /\ pos <= Len(resp)
    /\ EndsWithTxt(resp[pos].name)
    /\ extract_cell_id(resp[pos].name) # None
    /\ cell_map' = StoreEntry(cell_map, extract_cell_id(resp[pos].name), resp[pos])
    /\ arrived' = Append(arrived, resp[pos])
    /\ pos' = pos + 1
    /\ UNCHANGED <<scan_pc, resp, page_token, listed, reported, norm_vars, load_vars>>

\* page_token = resp.get("nextPageToken"); loop again while it is set
NextPage ==
    /\ scan_pc = "files" /\ pos > Len(resp)
    /\ page_token
    /\ scan_pc' = "list"
    /\ UNCHANGED <<resp, pos, page_token, cell_map, listed, arrived, reported, norm_vars, load_vars>>

\* if not page_token: break; return cell_map
ReturnCatalog ==
    /\ scan_pc = "files" /\ pos > Len(resp)
    /\ ~page_token
    /\ scan_pc' = "done"
    /\ UNCHANGED <<resp, pos, page_token, cell_map, listed, arrived, reported, norm_vars, load_vars>>

ScanNext ==
    \/ ListPage
    \/ SkipNonTxt
    \/ SkipInvalidId
    \/ TakeFile
    \/ NextPage
    \/ ReturnCatalog


---------------------------------------------------------------------------
(* Strings and floating-point values *)

RECURSIVE LStrip(_)
LStrip(s) == IF s # <<>> /\ IsSpace(Head(s)) THEN LStrip(Tail(s)) ELSE s

RECURSIVE RStrip(_)
RStrip(s) ==
    IF s # <<>> /\ IsSpace(s[Len(s)]) THEN RStrip(SubSeq(s, 1, Len(s) - 1)) ELSE s

\* str.strip()
Strip(s) == RStrip(LStrip(s))

\* str.replace("\n", " ")
ReplaceNewlines(s) == [i \in 1..Len(s) |-> IF s[i] = "\n" THEN " " ELSE s[i]]

RECURSIVE GCD(_, _)
GCD(a, b) == IF b = 0 THEN a ELSE GCD(b, a % b)

Abs(n) == IF n < 0 THEN -n ELSE n

\* A cell or float value.  kind "num": the rational num/den in lowest terms,
\* den > 0; "nan", "inf", "-inf": the IEEE specials; "str": a text cell;
\* "err": a failed conversion.
Val(k, n, d, s) == [kind |-> k, num |-> n, den |-> d, str |-> s]

Num(n, d) ==
    LET g == GCD(Abs(n), Abs(d))
        sg == IF d < 0 THEN -1 ELSE 1
    IN  Val("num", sg * (n \div g), sg * (d \div g), <<>>)

NaN == Val("nan", 0, 1, <<>>)
Inf == Val("inf", 0, 1, <<>>)
NegInf == Val("-inf", 0, 1, <<>>)
Str(s) == Val("str", 0, 1, s)
ConvError == Val("err", 0, 1, <<>>)

Sign(v) ==
    CASE v.kind = "inf" -> 1
      [] v.kind = "-inf" -> -1
      [] v.kind = "num" -> (IF v.num > 0 THEN 1 ELSE IF v.num < 0 THEN -1 ELSE 0)
      [] OTHER -> 0

SignedInf(sg) == IF sg > 0 THEN Inf ELSE IF sg < 0 THEN NegInf ELSE NaN

\* a / b on floats (numpy rules for a zero divisor); rounding is not modelled
FloatDiv(a, b) ==
    CASE a.kind = "nan" \/ b.kind = "nan" -> NaN
      [] a.kind = "num" /\ b.kind = "num" ->
            IF b.num = 0 THEN SignedInf(Sign(a))
            ELSE Num(a.num * b.den, a.den * b.num)
      [] a.kind = "num" -> Num(0, 1)
      [] b.kind = "num" -> SignedInf(Sign(a) * (IF b.num < 0 THEN -1 ELSE 1))
      [] OTHER -> NaN

\* a * b on floats
FloatMul(a, b) ==
    CASE a.kind = "nan" \/ b.kind = "nan" -> NaN
      [] a.kind = "num" /\ b.kind = "num" -> Num(a.num * b.num, a.den * b.den)
      [] OTHER -> SignedInf(Sign(a) * Sign(b))

\* a == b on floats: NaN equals nothing
FloatEq(a, b) == a.kind # "nan" /\ b.kind # "nan" /\ a = b

\* a <= 0 on floats: False for NaN
FloatLeZero(a) == a.kind = "-inf" \/ (a.kind = "num" /\ a.num <= 0)

\* a >= 0 on floats: False for NaN
FloatGeZero(a) == a.kind = "inf" \/ (a.kind = "num" /\ a.num >= 0)

DigitValue(c) ==
    CASE c = "0" -> 0 [] c = "1" -> 1 [] c = "2" -> 2 [] c = "3" -> 3
      [] c = "4" -> 4 [] c = "5" -> 5 [] c = "6" -> 6 [] c = "7" -> 7
      [] c = "8" -> 8 [] c = "9" -> 9

RECURSIVE DigitsValue(_)
DigitsValue(s) ==
    IF s = <<>> THEN 0
    ELSE 10 * DigitsValue(SubSeq(s, 1, Len(s) - 1)) + DigitValue(s[Len(s)])

RECURSIVE Pow10(_)
Pow10(n) == IF n = 0 THEN 1 ELSE 10 * Pow10(n - 1)

RemoveAt(s, i) == SubSeq(s, 1, i - 1) \o SubSeq(s, i + 1, Len(s))

AllDigits(s) == \A i \in 1..Len(s) : IsDigit(s[i])

\* an unsigned decimal literal: digits with at most one "."
ParseUnsigned(s) ==
    LET dots == {i \in 1..Len(s) : s[i] = "."}
    IN  IF dots = {} THEN
            IF s # <<>> /\ AllDigits(s) THEN Num(DigitsValue(s), 1) ELSE ConvError
        ELSE IF Cardinality(dots) = 1 THEN
            LET d == CHOOSE i \in dots : TRUE
                ds == RemoveAt(s, d)
            IN  IF ds # <<>> /\ AllDigits(ds)
                THEN Num(DigitsValue(ds), Pow10(Len(s) - d))
                ELSE ConvError
        ELSE ConvError

NanWords == {<<"n","a","n">>, <<"N","a","N">>, <<"N","A","N">>}
InfWords == {<<"i","n","f">>, <<"I","n","f">>, <<"I","N","F">>}

\* float(s) for literals of the forms [+-]digits[.digits], [+-]nan, [+-]inf
\* (exponents and digit-group underscores are outside this sublanguage);
\* ConvError stands for ValueError
ParseFloat(s) ==
    LET t == Strip(s)
        signed == t # <<>> /\ Head(t) \in {"+", "-"}
        body == IF signed THEN Tail(t) ELSE t
        neg == signed /\ Head(t) = "-"
    IN  IF body \in NanWords THEN NaN
        ELSE IF body \in InfWords THEN (IF neg THEN NegInf ELSE Inf)
        ELSE LET u == ParseUnsigned(body)
             IN  IF u.kind = "num" /\ neg THEN Num(-u.num, u.den) ELSE u

\* pd.to_numeric on one cell: numbers stay, text is parsed, bad text raises
ToNumericCell(c) == IF c.kind = "str" THEN ParseFloat(c.str) ELSE c

---------------------------------------------------------------------------
(* data_loader.py: tables, validation and normalization *)

\* "Capacity/mA.h"
CapacityColDefault == <<"C","a","p","a","c","i","t","y","/","m","A",".","h">>

\* "WE Active Material Mass (mg)"
MassKeyDefault ==
    <<"W","E"," ","A","c","t","i","v","e"," ","M","a","t","e","r","i","a","l"," ">> \o
    <<"M","a","s","s"," ","(","m","g",")">>

\* "Normalized Capacity (mAh/g)"
NormCol ==
    <<"N","o","r","m","a","l","i","z","e","d"," ","C","a","p","a","c","i","t","y"," ">> \o
    <<"(","m","A","h","/","g",")">>

\* "Cell ID", "Working Electrode", "time/s"
CellIdKey == <<"C","e","l","l"," ","I","D">>
ElectrodeKey == <<"W","o","r","k","i","n","g"," ","E","l","e","c","t","r","o","d","e">>
TimeCol == <<"t","i","m","e","/","s">>

\* A DataFrame: the ordered column names and the ordered rows, each row the
\* sequence of its cells in column order.
HasColumn(df, c) == \E j \in 1..Len(df.columns) : df.columns[j] = c

ColIndex(df, c) == CHOOSE j \in 1..Len(df.columns) : df.columns[j] = c

\* df[c]
Column(df, c) == [i \in 1..Len(df.rows) |-> df.rows[i][ColIndex(df, c)]]

\* df[c] = values: a new column is appended, an existing one is overwritten
SetColumn(df, c, values) ==
    IF HasColumn(df, c)
    THEN [columns |-> df.columns,
          rows |-> [i \in 1..Len(df.rows) |->
                      [df.rows[i] EXCEPT ![ColIndex(df, c)] = values[i]]]]
    ELSE [columns |-> Append(df.columns, c),
          rows |-> [i \in 1..Len(df.rows) |-> Append(df.rows[i], values[i])]]

\* a raised exception: the Python class and the error kind it stands for
Raised(exc, kind) == [exc |-> exc, kind |-> kind]
NoError == Raised("none", "none")

\* pd.to_numeric(series, errors="raise")
to_numeric(series) == [i \in 1..Len(series) |-> ToNumericCell(series[i])]

\* _validate_capacity_column
validate_capacity_column(df, capacity_col) ==
    IF ~HasColumn(df, capacity_col) THEN Raised("KeyError", "MissingColumn")
    ELSE IF \E i \in 1..Len(df.rows) : to_numeric(Column(df, capacity_col))[i].kind = "err"
         THEN Raised("ValueError", "NonNumericData")
         ELSE NoError

\* The result of a call: the exception raised (or NoError) and the state of
\* the caller's DataFrame object afterwards; on success that same object is
\* the return value.
Outcome(error, df) == [error |-> error, df |-> df]

\* variant of add_normalized_capacity that writes the new column before the
\* mass and capacity checks have run
add_normalized_capacity_EagerWrite(raw_df, metadata, capacity_col, mass_key) ==
    LET v == validate_capacity_column(raw_df, capacity_col)
    IN  IF v # NoError THEN Outcome(v, raw_df)
        ELSE
        LET cap == to_numeric(Column(raw_df, capacity_col))
            written == SetColumn(raw_df, NormCol, cap)
        IN  IF mass_key \notin DOMAIN metadata
            THEN Outcome(Raised("KeyError", "MissingField"), written)
            ELSE
            LET mass_mg == ParseFloat(metadata[mass_key])
            IN  IF mass_mg.kind = "err"
                THEN Outcome(Raised("ValueError", "NonNumericMass"), written)
                ELSE IF FloatLeZero(mass_mg)
                THEN Outcome(Raised("ValueError", "NonPositiveMass"), written)
                ELSE
                LET mass_g == FloatDiv(mass_mg, Num(1000, 1))
                IN  IF \E i \in 1..Len(cap) : cap[i].kind = "nan"
                    THEN Outcome(Raised("AssertionError", "InvalidCapacity"), written)
                    ELSE IF \E i \in 1..Len(cap) : ~FloatGeZero(cap[i])
                    THEN Outcome(Raised("AssertionError", "InvalidCapacity"), written)
                    ELSE Outcome(NoError,
                            SetColumn(raw_df, NormCol,
                                [i \in 1..Len(cap) |-> FloatDiv(cap[i], mass_g)]))

\* add_normalized_capacity(raw_df, metadata, capacity_col, mass_key)
add_normalized_capacity(raw_df, metadata, capacity_col, mass_key) ==
    LET v == validate_capacity_column(raw_df, capacity_col)
    IN  IF v # NoError THEN Outcome(v, raw_df)
        ELSE IF mass_key \notin DOMAIN metadata
        THEN Outcome(Raised("KeyError", "MissingField"), raw_df)
        ELSE
        LET mass_mg == ParseFloat(metadata[mass_key])
        IN  IF mass_mg.kind = "err"
            THEN Outcome(Raised("ValueError", "NonNumericMass"), raw_df)
            ELSE IF FloatLeZero(mass_mg)
            THEN Outcome(Raised("ValueError", "NonPositiveMass"), raw_df)
            ELSE
            LET mass_g == FloatDiv(mass_mg, Num(1000, 1))
                cap == to_numeric(Column(raw_df, capacity_col))
            IN  IF \E i \in 1..Len(cap) : cap[i].kind = "nan"
                THEN Outcome(Raised("AssertionError", "InvalidCapacity"), raw_df)
                ELSE IF \E i \in 1..Len(cap) : ~FloatGeZero(cap[i])
                THEN Outcome(Raised("AssertionError", "InvalidCapacity"), raw_df)
                ELSE Outcome(NoError,
                        SetColumn(raw_df, NormCol,
                            [i \in 1..Len(cap) |-> FloatDiv(cap[i], mass_g)]))

\* ---- inputs of a direct call

\* bound on the number of rows of a table
MaxRows == 2

\* capacity cells: 5, 0, 2.5, -2, a missing value, unparsable text, "7"
CapCells ==
    { Num(5, 1), Num(0, 1), Num(5, 2), Num(-2, 1), NaN,
      Str(<<"a","b","c">>), Str(<<"7">>) }

\* mass field texts
MassTexts ==
    { <<"2","5","0">>, <<" ","2","5","0"," ">>, <<"1","2",".","5">>, <<"3">>,
      <<"0">>, <<"-","5">>, <<"n","a","n">>, <<"i","n","f">>, <<"-","i","n","f">>,
      <<"a","b","c">>, <<>> }

\* raw tables as exported: with or without the capacity column
ColumnLayouts == { <<TimeCol>>, <<TimeCol, CapacityColDefault>> }

\* a table with the given columns whose capacity cells are caps
MakeTable(columns, caps) ==
    [columns |-> columns,
     rows |-> [i \in 1..Len(caps) |->
                 [j \in 1..Len(columns) |->
                    IF columns[j] = CapacityColDefault THEN caps[i] ELSE Num(i, 1)]]]

InputTables ==
    { MakeTable(cols, caps) :
        cols \in ColumnLayouts,
        caps \in UNION { [1..n -> CapCells] : n \in 1..MaxRows } }

InputMetadata ==
    { [k \in {CellIdKey} |-> <<"M","E","N","0","0","0","1">>] } \cup
    { [k \in {CellIdKey, MassKeyDefault} |->
          IF k = CellIdKey THEN <<"M","E","N","0","0","0","1">> ELSE m] :
        m \in MassTexts }

NormInit ==
    /\ norm_pc = "call"
    /\ header = <<>>
    /\ caller_df \in InputTables
    /\ caller_meta \in InputMetadata
    /\ passed_df = caller_df
    /\ outcome = NoError
    /\ required = <<>>
    \* no enumeration is running
    /\ scan_pc = "off"
    /\ resp = <<>>
    /\ pos = 1
    /\ page_token = FALSE
    /\ cell_map = <<>>
    /\ listed = <<>>
    /\ arrived = <<>>
    /\ reported = <<>>
    \* no batch load is running
    /\ ld_pc = "off"
    /\ cell_file_map = <<>>
    /\ idx = 1
    /\ raw_data = <<>>
    /\ cell_metadata = <<>>
    /\ result = <<>>
    /\ ld_error = <<>>
    /\ tab_cache = <<>>
    /\ events = <<>>

\* add_normalized_capacity(raw_df, metadata) with the default column and field
\* names: the caller's DataFrame object is updated in place and returned
CallAddNormalizedCapacity ==
    /\ norm_pc = "call"
    /\ LET r == add_normalized_capacity(caller_df, caller_meta,
                                        CapacityColDefault, MassKeyDefault)
       IN  /\ caller_df' = r.df
           /\ outcome' = r.error
    /\ norm_pc' = "returned"
    /\ UNCHANGED <<header, caller_meta, passed_df, required, scan_vars, load_vars>>

NormNext == CallAddNormalizedCapacity

SpecNorm == NormInit /\ [][NormNext]_vars

SpecCatalog == ScanInit /\ [][ScanNext]_vars

---------------------------------------------------------------------------
(* Header handling: data_loader.download_and_parse_txt_file and            *)
(* googlesheet_loader._values_to_dataframe / load_googlesheet              *)

\* df.columns = df.columns.str.strip()
StripColumns(columns) == [j \in 1..Len(columns) |-> Strip(columns[j])]

\* a row that df.dropna(how="all") keeps
HasValue(row) == \E j \in 1..Len(row) : row[j].kind # "nan"

\* download_and_parse_txt_file, applied to the table pd.read_csv produced from
\* the downloaded text
download_and_parse_txt_file(parsed) ==
    [columns |-> StripColumns(parsed.columns),
     rows |-> SelectSeq(parsed.rows, HasValue)]

\* headers = [(h or "").replace("\n", " ").strip() for h in values[0]]
SheetHeaders(first_row) ==
    [j \in 1..Len(first_row) |-> Strip(ReplaceNewlines(first_row[j]))]

\* _values_to_dataframe: cells of a sheet DataFrame are strings
values_to_dataframe(values) ==
    IF values = <<>> THEN [columns |-> <<>>, rows |-> <<>>]
    ELSE [columns |-> SheetHeaders(values[1]), rows |-> Tail(values)]

\* REQUIRED_HEADERS
REQUIRED_HEADERS == <<CellIdKey, ElectrodeKey, MassKeyDefault>>

\* _validate_headers
validate_headers(df) ==
    IF \E h \in 1..Len(REQUIRED_HEADERS) : ~HasColumn(df, REQUIRED_HEADERS[h])
    THEN Raised("KeyError", "MissingHeader")
    ELSE NoError

\* df.empty
IsEmptyFrame(df) == df.columns = <<>> \/ df.rows = <<>>

\* _get_tab_df on a cache miss, given the values the Sheets API returned
get_tab_df(values) ==
    LET df == values_to_dataframe(values)
    IN  IF IsEmptyFrame(df) THEN Outcome(Raised("ValueError", "EmptyTab"), df)
        ELSE Outcome(validate_headers(df), df)

\* initials = cell_id[:3]
TabOf(cell_id) == SubSeq(cell_id, 1, IF Len(cell_id) < 3 THEN Len(cell_id) ELSE 3)

\* row.iloc[0] with s.index.str.strip(), then Series.to_dict()
RowToDict(df, row) ==
    [k \in {Strip(df.columns[j]) : j \in 1..Len(df.columns)} |->
        row[CHOOSE j \in 1..Len(df.columns) : Strip(df.columns[j]) = k]]

\* load_googlesheet after the tab's DataFrame was obtained: the row whose
\* "Cell ID" equals cell_id, as a dict, or ValueError when there is none
lookup_row(df, cell_id) ==
    LET IsCell(row) == row[ColIndex(df, CellIdKey)] = cell_id
        matching == SelectSeq(df.rows, IsCell)
    IN  IF matching = <<>> THEN Outcome(Raised("ValueError", "NotFound"), <<>>)
        ELSE Outcome(NoError, RowToDict(df, matching[1]))

\* ---- header runs: one header text reaches both loaders

\* bound on the length of a header text
MaxHeaderLen == 4

HeaderChars == {"a", "b", " ", "\n"}

HeaderTexts == UNION { [1..n -> HeaderChars] : n \in 1..MaxHeaderLen }

\* configured names, each already in canonical form
RequiredNames == { <<"a", " ", "b">>, <<"a", "b">>, <<"a">> }

HeaderInit ==
    /\ norm_pc = "parse_txt"
    /\ header \in HeaderTexts
    /\ required \in RequiredNames
    /\ caller_df = <<>>
    /\ caller_meta = <<>>
    /\ passed_df = <<>>
    /\ outcome = NoError
    \* no enumeration is running
    /\ scan_pc = "off"
    /\ resp = <<>>
    /\ pos = 1
    /\ page_token = FALSE
    /\ cell_map = <<>>
    /\ listed = <<>>
    /\ arrived = <<>>
    /\ reported = <<>>
    \* no batch load is running
    /\ ld_pc = "off"
    /\ cell_file_map = <<>>
    /\ idx = 1
    /\ raw_data = <<>>
    /\ cell_metadata = <<>>
    /\ result = <<>>
    /\ ld_error = <<>>
    /\ tab_cache = <<>>
    /\ events = <<>>

\* a text file whose only column is headed by the header text, one row
ParseTxt ==
    /\ norm_pc = "parse_txt"
    /\ caller_df' = download_and_parse_txt_file(
                        [columns |-> <<header>>, rows |-> << <<Num(5, 1)>> >>])
    /\ passed_df' = caller_df'
    /\ norm_pc' = "load_sheet"
    /\ UNCHANGED <<header, caller_meta, outcome, required, scan_vars, load_vars>>

\* a sheet whose only column is headed by the header text, one row
LoadSheetRow ==
    /\ norm_pc = "load_sheet"
    /\ LET df == values_to_dataframe(<< <<header>>, << <<"2","5","0">> >> >>)
       IN  caller_meta' = RowToDict(df, df.rows[1])
    /\ norm_pc' = "call"
    /\ UNCHANGED <<header, caller_df, passed_df, outcome, required, scan_vars, load_vars>>

\* add_normalized_capacity(raw_df, metadata, capacity_col=required, mass_key=required)
CallWithConfiguredNames ==
    /\ norm_pc = "call"
    /\ LET r == add_normalized_capacity(caller_df, caller_meta, required, required)
       IN  /\ caller_df' = r.df
           /\ outcome' = r.error
    /\ norm_pc' = "returned"
    /\ UNCHANGED <<header, caller_meta, passed_df, required, scan_vars, load_vars>>

HeaderNext == ParseTxt \/ LoadSheetRow \/ CallWithConfiguredNames

SpecHeaders == HeaderInit /\ [][HeaderNext]_vars

---------------------------------------------------------------------------
(* data_loader.load_all_cell_data *)

\* bound on the number of cells of one batch
MaxCells == 2

CellIds ==
    { <<"M","E","N","0","0","0","1">>, <<"M","E","N","0","0","0","2">>,
      <<"A","B","1","2","3","4">>, <<"A","B","C","D","0","0","0","1">> }

\* Tables as pd.read_csv yields them from the downloaded files
DriveTables ==
    { [columns |-> <<TimeCol, CapacityColDefault>>,
       rows |-> << <<Num(1, 1), Num(5, 1)>>, <<Num(2, 1), Num(5, 2)>> >>],
      [columns |-> <<<<" ">> \o TimeCol, CapacityColDefault \o <<" ", "\n">>>>,
       rows |-> << <<Num(1, 1), Num(5, 1)>>, <<NaN, NaN>>, <<Num(3, 1), Num(0, 1)>> >>],
      [columns |-> <<TimeCol>>,
       rows |-> << <<Num(1, 1)>> >>],
      [columns |-> <<TimeCol, CapacityColDefault>>,
       rows |-> << <<Num(1, 1), Num(-2, 1)>> >>],
      [columns |-> <<TimeCol, CapacityColDefault>>,
       rows |-> << <<Num(1, 1), NaN>>, <<Num(2, 1), Num(5, 1)>> >>],
      [columns |-> <<TimeCol, CapacityColDefault>>,
       rows |-> << <<Num(1, 1), Str(<<"a","b","c">>)>> >>] }

\* header rows a tab may carry
CanonicalHeaderRow == <<CellIdKey, ElectrodeKey, MassKeyDefault>>

\* " Cell ID", "Working\nElectrode", "WE Active Material\nMass (mg) "
WrappedHeaderRow ==
    << <<" ">> \o CellIdKey,
       <<"W","o","r","k","i","n","g","\n","E","l","e","c","t","r","o","d","e">>,
       <<"W","E"," ","A","c","t","i","v","e"," ","M","a","t","e","r","i","a","l","\n","M","a","s","s"," ">> \o
       <<"(","m","g",")"," ">> >>

NoMassHeaderRow == <<CellIdKey, ElectrodeKey>>

\* a tab's values: the header row, then one row for each of the given cells
TabValues(header_row, cells, mass) ==
    <<header_row>> \o
    [i \in 1..Len(cells) |->
        IF Len(header_row) = 3 THEN <<cells[i], <<"L","F","P">>, mass>>
        ELSE <<cells[i], <<"L","F","P">>>>]

AllCells ==
    << <<"M","E","N","0","0","0","1">>, <<"M","E","N","0","0","0","2">>,
       <<"A","B","1","2","3","4">>, <<"A","B","C","D","0","0","0","1">> >>

\* Values the Sheets API may return for a tab
SheetTabs ==
    { <<>>,
      <<CanonicalHeaderRow>>,
      TabValues(NoMassHeaderRow, AllCells, <<>>),
      TabValues(CanonicalHeaderRow, <<AllCells[2]>>, <<"2","5","0">>),
      TabValues(CanonicalHeaderRow, AllCells, <<"2","5","0">>),
      TabValues(WrappedHeaderRow, AllCells, <<" ","1","2",".","5">>),
      TabValues(CanonicalHeaderRow, AllCells, <<"0">>),
      TabValues(CanonicalHeaderRow, AllCells, <<"n","a","n">>),
      TabValues(CanonicalHeaderRow, AllCells, <<"a","b","c">>) }

\* file_info.get("file_id"): None stands for an absent or empty file_id
FileInfos(cell_id) ==
    { [cell_id |-> cell_id, file_id |-> <<"f">> \o cell_id],
      [cell_id |-> cell_id, file_id |-> None] }

\* dicts of up to MaxCells distinct cell ids, in insertion order
InputMaps ==
    { m \in UNION { [1..n -> UNION { FileInfos(c) : c \in CellIds }] : n \in 1..MaxCells } :
        \A i, j \in 1..Len(m) : i # j => m[i].cell_id # m[j].cell_id }

NoLoadError == [cell_id |-> None, error |-> NoError]

Event(cell_id, step, tab) == [cell_id |-> cell_id, step |-> step, tab |-> tab]

CurrentCell == cell_file_map[idx].cell_id

LoadInit ==
    /\ ld_pc = "check"
    /\ cell_file_map \in InputMaps
    /\ idx = 1
    /\ raw_data = <<>>
    /\ cell_metadata = <<>>
    /\ result = <<>>
    /\ ld_error = NoLoadError
    /\ tab_cache = <<>>
    /\ events = <<>>
    \* no enumeration is running
    /\ scan_pc = "off"
    /\ resp = <<>>
    /\ pos = 1
    /\ page_token = FALSE
    /\ cell_map = <<>>
    /\ listed = <<>>
    /\ arrived = <<>>
    /\ reported = <<>>
    \* no direct call is running
    /\ norm_pc = "off"
    /\ header = <<>>
    /\ caller_df = <<>>
    /\ caller_meta = <<>>
    /\ passed_df = <<>>
    /\ outcome = <<>>
    /\ required = <<>>

\* an exception leaves load_all_cell_data: the loop stops, result is dropped
Raise(error) ==
    /\ ld_pc' = "raised"
    /\ ld_error' = [cell_id |-> CurrentCell, error |-> error]
    /\ events' = Append(events, Event(CurrentCell, "failed", <<>>))

\* file_id = file_info.get("file_id"); if not file_id: raise ValueError
CheckFileId ==
    /\ ld_pc = "check" /\ idx <= Len(cell_file_map)
    /\ IF cell_file_map[idx].file_id = None
       THEN Raise(Raised("ValueError", "MissingFileId"))
       ELSE /\ ld_pc' = "fetch_raw"
            /\ UNCHANGED <<ld_error, events>>
    /\ UNCHANGED <<cell_file_map, idx, raw_data, cell_metadata, result, tab_cache,
                   scan_vars, norm_vars>>

\* raw_data = download_and_parse_txt_file(file_id): the download succeeds
DownloadRaw ==
    /\ ld_pc = "fetch_raw"
    /\ \E parsed \in DriveTables : raw_data' = download_and_parse_txt_file(parsed)
    /\ events' = Append(events, Event(CurrentCell, "fetch_raw", <<>>))
    /\ ld_pc' = "fetch_meta"
    /\ UNCHANGED <<cell_file_map, idx, cell_metadata, result, ld_error, tab_cache,
                   scan_vars, norm_vars>>

\* the Drive client raises (no such file): the exception propagates
DownloadFails ==
    /\ ld_pc = "fetch_raw"
    /\ Raise(Raised("HttpError", "NotFound"))
    /\ UNCHANGED <<cell_file_map, idx, raw_data, cell_metadata, result, tab_cache,
                   scan_vars, norm_vars>>

\* the loader's call at "Perform mandatory normalization", all errors swallowed
loader_normalize_Swallow(table, meta) ==
    LET r == add_normalized_capacity(table, meta, CapacityColDefault, MassKeyDefault)
    IN  Outcome(NoError, r.df)

\* add_normalized_capacity(raw_data, metadata): the default names are used
loader_normalize(table, meta) ==
    add_normalized_capacity(table, meta, CapacityColDefault, MassKeyDefault)

\* metadata = load_googlesheet(cell_id).to_dict(): the tab named cell_id[:3]
\* is read through the cache, headers are validated, the row is looked up
LoadMetadata ==
    /\ ld_pc = "fetch_meta"
    /\ LET tab == TabOf(CurrentCell)
           cached == tab \in DOMAIN tab_cache
       IN  \E values \in (IF cached THEN {<<>>} ELSE SheetTabs) :
             LET got == IF cached THEN Outcome(NoError, tab_cache[tab])
                        ELSE get_tab_df(values)
                 row == IF got.error = NoError THEN lookup_row(got.df, CurrentCell)
                        ELSE got
             IN  /\ tab_cache' =
                        IF got.error = NoError /\ ~cached
                        THEN [k \in DOMAIN tab_cache \cup {tab} |->
                                 IF k = tab THEN got.df ELSE tab_cache[k]]
                        ELSE tab_cache
                 /\ IF row.error = NoError
                    THEN /\ cell_metadata' = row.df
                         /\ ld_pc' = "normalize"
                         /\ ld_error' = ld_error
                         /\ events' = Append(events, Event(CurrentCell, "fetch_meta", tab))
                    ELSE /\ cell_metadata' = cell_metadata
                         /\ ld_pc' = "raised"
                         /\ ld_error' = [cell_id |-> CurrentCell, error |-> row.error]
                         /\ events' = events \o
                              << Event(CurrentCell, "fetch_meta", tab),
                                 Event(CurrentCell, "failed", <<>>) >>
    /\ UNCHANGED <<cell_file_map, idx, raw_data, result, scan_vars, norm_vars>>

\* the Sheets client raises (no such tab): the exception propagates
SheetTabMissing ==
    /\ ld_pc = "fetch_meta"
    /\ TabOf(CurrentCell) \notin DOMAIN tab_cache
    /\ ld_pc' = "raised"
    /\ ld_error' = [cell_id |-> CurrentCell,
                    error |-> Raised("HttpError", "PartitionNotFound")]
    /\ events' = events \o << Event(CurrentCell, "fetch_meta", TabOf(CurrentCell)),
                              Event(CurrentCell, "failed", <<>>) >>
    /\ UNCHANGED <<cell_file_map, idx, raw_data, cell_metadata, result, tab_cache,
                   scan_vars, norm_vars>>

\* add_normalized_capacity(raw_data, metadata): raw_data is updated in place,
\* the return value is not used; an exception propagates
Normalize ==
    /\ ld_pc = "normalize"
    /\ LET r == loader_normalize(raw_data, cell_metadata)
       IN  /\ raw_data' = r.df
           /\ IF r.error = NoError
              THEN /\ ld_pc' = "store"
                   /\ ld_error' = ld_error
                   /\ events' = Append(events, Event(CurrentCell, "normalized", <<>>))
              ELSE Raise(r.error)
    /\ UNCHANGED <<cell_file_map, idx, cell_metadata, result, tab_cache,
                   scan_vars, norm_vars>>

\* result[cell_id] = {"raw_data": raw_data, "metadata": metadata}; next cell
Store ==
    /\ ld_pc = "store"
    /\ result' = [k \in DOMAIN result \cup {CurrentCell} |->
                    IF k = CurrentCell
                    THEN [raw_data |-> raw_data, metadata |-> cell_metadata]
                    ELSE result[k]]
    /\ events' = Append(events, Event(CurrentCell, "stored", <<>>))
    /\ idx' = idx + 1
    /\ ld_pc' = "check"
    /\ UNCHANGED <<cell_file_map, raw_data, cell_metadata, ld_error, tab_cache,
                   scan_vars, norm_vars>>

\* return result
ReturnResult ==
    /\ ld_pc = "check" /\ idx > Len(cell_file_map)
    /\ ld_pc' = "returned"
    /\ UNCHANGED <<cell_file_map, idx, raw_data, cell_metadata, result, ld_error,
                   tab_cache, events, scan_vars, norm_vars>>

LoadNext ==
    \/ CheckFileId
    \/ DownloadRaw
    \/ DownloadFails
    \/ LoadMetadata
    \/ SheetTabMissing
    \/ Normalize
    \/ Store
    \/ ReturnResult

SpecLoader == LoadInit /\ [][LoadNext]_vars

---------------------------------------------------------------------------
(* Properties of the catalog enumeration *)

\* the identifier a listed file yields, None when the file is skipped
Yields(file) == IF EndsWithTxt(file.name) THEN extract_cell_id(file.name) ELSE None

\* k is <2+ letters><4+ digits>
MatchesIdPattern(k) ==
    \E n \in 2..(Len(k) - 4) :
        /\ \A i \in 1..n : IsLetter(k[i])
        /\ \A i \in (n + 1)..Len(k) : IsDigit(k[i])

\* the name begins with an identifier followed by an underscore
BeginsWithId(name, k) ==
    /\ Len(name) > Len(k)
    /\ SubSeq(name, 1, Len(k)) = k
    /\ name[Len(k) + 1] = "_"

\* the name ends in .txt and begins with 2+ letters, 4+ digits, underscore
WellNamed(name) ==
    /\ EndsWithTxt(name)
    /\ \E n \in 1..Len(name) : MatchesIdPattern(SubSeq(name, 1, n))
                                /\ BeginsWithId(name, SubSeq(name, 1, n))

\* C2: the catalog holds exactly one entry for every identifier that an
\* iterated file yields, and the entry describes the first file, in arrival
\* order over all pages, that yields the identifier; no later file with the
\* same identifier replaces or alters it.
C2_FirstFileWins ==
    /\ \A k \in DOMAIN cell_map :
          \E i \in 1..Len(arrived) :
              /\ Yields(arrived[i]) = k
              /\ \A j \in 1..(i - 1) : Yields(arrived[j]) # k
              /\ cell_map[k] = Descriptor(arrived[i])
    /\ \A i \in 1..Len(arrived) :
          Yields(arrived[i]) # None => Yields(arrived[i]) \in DOMAIN cell_map

\* C2 witness: the enumeration has returned after two different files with
\* the same identifier arrived
C2_Witness ==
    /\ scan_pc = "done"
    /\ \E i, j \in 1..Len(arrived) :
          /\ i < j
          /\ arrived[i] # arrived[j]
          /\ Yields(arrived[i]) # None
          /\ Yields(arrived[i]) = Yields(arrived[j])

\* C3: a file that does not end in .txt or does not begin with 2+ letters,
\* 4+ digits and an underscore adds no entry and does not stop the
\* enumeration: every well-named file, also one listed after it, has its
\* identifier in the catalog, and the enumeration returns only after every
\* listed file was iterated.  Every key matches <2+ letters><4+ digits> and
\* its stored filename starts with the key and "_" and ends with ".txt".
C3_SkipsBadNames ==
    /\ \A k \in DOMAIN cell_map :
          /\ MatchesIdPattern(k)
          /\ BeginsWithId(cell_map[k].filename, k)
          /\ EndsWithTxt(cell_map[k].filename)
    /\ \A i \in 1..Len(arrived) :
          IF WellNamed(arrived[i].name)
          THEN \E k \in DOMAIN cell_map : BeginsWithId(arrived[i].name, k)
          ELSE \A k \in DOMAIN cell_map : cell_map[k].file_id # arrived[i].id
    /\ scan_pc = "done" => arrived = listed

\* C3 witness: the enumeration has returned, a badly named file arrived and a
\* well-named file listed after it is in the catalog
C3_Witness ==
    /\ scan_pc = "done"
    /\ \E i, j \in 1..Len(arrived) :
          /\ i < j
          /\ ~WellNamed(arrived[i].name)
          /\ WellNamed(arrived[j].name)
          /\ \E k \in DOMAIN cell_map : cell_map[k].file_id = arrived[j].id

---------------------------------------------------------------------------
(* Properties of add_normalized_capacity *)

\* x > 0 for a float: false for NaN
StrictlyPositive(x) == x.kind = "inf" \/ (x.kind = "num" /\ x.num > 0)

\* the capacity column of the table passed in, after numeric coercion
PassedCapacity == to_numeric(Column(passed_df, CapacityColDefault))

\* the mass field as parsed
ParsedMass == ParseFloat(caller_meta[MassKeyDefault])

\* the error of the first failing check, in the order of the six checks
FirstFailingCheck ==
    IF ~HasColumn(passed_df, CapacityColDefault) THEN "MissingColumn"
    ELSE IF \E i \in 1..Len(PassedCapacity) : PassedCapacity[i].kind = "err"
    THEN "NonNumericData"
    ELSE IF MassKeyDefault \notin DOMAIN caller_meta THEN "MissingField"
    ELSE IF ParsedMass.kind = "err" THEN "NonNumericMass"
    ELSE IF ~StrictlyPositive(ParsedMass) THEN "NonPositiveMass"
    ELSE IF \E i \in 1..Len(PassedCapacity) :
                PassedCapacity[i].kind = "nan" \/ ~FloatGeZero(PassedCapacity[i])
    THEN "InvalidCapacity"
    ELSE "none"

\* C4: the call reports the error of the first failing check in the order
\* MissingColumn, NonNumericData, MissingField, NonNumericMass,
\* NonPositiveMass (mass > 0 fails), InvalidCapacity, and succeeds only when
\* all six checks pass.
C4_FirstFailingCheckReported ==
    norm_pc = "returned" => outcome.kind = FirstFailingCheck

\* C5: the normalized column is computed only when the mass field parses as
\* a number strictly greater than zero, so the divisor is strictly positive.
C5_MassStrictlyPositive ==
    (norm_pc = "returned" /\ outcome = NoError) =>
        /\ StrictlyPositive(ParsedMass)
        /\ StrictlyPositive(FloatDiv(ParsedMass, Num(1000, 1)))

\* C6: on success the table has the same rows in the same order and the same
\* original column values, plus the column "Normalized Capacity (mAh/g)"
\* whose value in every row is the capacity divided by mass_mg / 1000, that
\* is, normalized = capacity * 1000 / mass_mg.
C6_NormalizedColumn ==
    (norm_pc = "returned" /\ outcome = NoError) =>
        /\ Len(caller_df.rows) = Len(passed_df.rows)
        /\ \A j \in 1..Len(passed_df.columns) :
              Column(caller_df, passed_df.columns[j])
                  = Column(passed_df, passed_df.columns[j])
        /\ caller_df.columns = Append(passed_df.columns, NormCol)
        /\ \A i \in 1..Len(caller_df.rows) :
              FloatEq(Column(caller_df, NormCol)[i],
                      FloatDiv(FloatMul(PassedCapacity[i], Num(1000, 1)), ParsedMass))

---------------------------------------------------------------------------
(* Properties of header normalization *)

\* the specified normalization: strip, then each embedded newline a space
HeaderNormalizer(h) == ReplaceNewlines(Strip(h))

\* C9: the same normalization (strip, newline to space) reaches the raw
\* table's column names and the metadata's field names, it is idempotent,
\* and a required name written with surrounding whitespace or an embedded
\* newline is found under its canonical name in both and passes validation.
C9_UniformHeaderNormalization ==
    /\ norm_pc \in {"load_sheet", "call", "returned"} =>
          /\ passed_df.columns = <<HeaderNormalizer(header)>>
          /\ StripColumns(passed_df.columns) = passed_df.columns
    /\ norm_pc \in {"call", "returned"} =>
          /\ DOMAIN caller_meta = {HeaderNormalizer(header)}
          /\ HeaderNormalizer(HeaderNormalizer(header)) = HeaderNormalizer(header)
    /\ (norm_pc = "returned" /\ HeaderNormalizer(header) = required) =>
          outcome = NoError

---------------------------------------------------------------------------
(* Properties of load_all_cell_data *)

Requested == {cell_file_map[i].cell_id : i \in 1..Len(cell_file_map)}

Terminated == ld_pc \in {"returned", "raised"}

\* the steps logged for one cell, in order
StepsOf(c) ==
    LET IsOf(e) == e.cell_id = c
        own == SelectSeq(events, IsOf)
    IN  [i \in 1..Len(own) |-> own[i].step]

IsPrefix(p, q) == Len(p) <= Len(q) /\ SubSeq(q, 1, Len(p)) = p

LoadedSteps == <<"fetch_raw", "fetch_meta", "normalized", "stored">>

\* C1: when the call ends, every requested identifier has an outcome: its
\* normalized data in the returned mapping, or the error reported for it;
\* one cell's failure does not take away the outcome of any other cell.
C1_OutcomeForEveryCell ==
    Terminated =>
        \A c \in Requested :
            \/ ld_pc = "returned" /\ c \in DOMAIN result
            \/ ld_error.cell_id = c

OtherColumns(df) ==
    { <<df.columns[j], Column(df, df.columns[j])>> :
        j \in {i \in 1..Len(df.columns) : df.columns[i] # NormCol} }

LeadingLetters(c) == SubSeq(c, 1, RunLen(c, 1, "letter"))

\* C8: the partition queried for an identifier is its leading letters.
C8_PartitionIsInitials ==
    \A i \in 1..Len(events) :
        events[i].step = "fetch_meta" =>
            events[i].tab = LeadingLetters(events[i].cell_id)

\* C10: each identifier goes through fetch of the table, fetch of the
\* metadata, validation and normalization, and store, in that order; an
\* entry exists only for an identifier that completed all of them, and its
\* table carries the normalized column; an identifier without file_id is
\* rejected before any fetch; an identifier that failed has no entry.
C10_PipelineOrder ==
    /\ \A c \in Requested :
          \/ IsPrefix(StepsOf(c), LoadedSteps)
          \/ /\ StepsOf(c)[Len(StepsOf(c))] = "failed"
             /\ IsPrefix(SubSeq(StepsOf(c), 1, Len(StepsOf(c)) - 1),
                         SubSeq(LoadedSteps, 1, 3))
    /\ \A c \in Requested : c \in DOMAIN result <=> StepsOf(c) = LoadedSteps
    /\ \A k \in DOMAIN result :
          /\ HasColumn(result[k].raw_data, NormCol)
          /\ MassKeyDefault \in DOMAIN result[k].metadata
    /\ \A i \in 1..Len(cell_file_map) :
          cell_file_map[i].file_id = None =>
              StepsOf(cell_file_map[i].cell_id) \in {<<>>, <<"failed">>}
    /\ ld_pc = "raised" => ld_error.cell_id \notin DOMAIN result

\* C10 witness: one identifier was loaded through all steps and the next one
\* was rejected for its missing file_id before any fetch
C10_Witness ==
    /\ ld_pc = "raised"
    /\ DOMAIN result # {}
    /\ ld_error.error.kind = "MissingFileId"
    /\ StepsOf(ld_error.cell_id) = <<"failed">>

===========================================================================
